---------------------------- MODULE Spec2Model ----------------------------
(***************************************************************************)
(* A model of the LMC compiler's parser/emitter (src/src/compiler.rs,      *)
(* parse_tokens).  The parser consumes the token stream one logical line   *)
(* at a time; each line is dispatched on its first token, updates the      *)
(* variable table, the constant set, the scope stack and the program       *)
(* buffer, or returns a diagnostic.  After the last line the finalizer     *)
(* appends HLT and the data section.                                       *)
(*                                                                         *)
(* Text is modelled at the granularity of whitespace-separated words: the  *)
(* program buffer is the sequence of words and newline markers that the    *)
(* format! calls append.                                                   *)
(*                                                                         *)
(* Beside the parser (Spec) the module follows a second call of compile on *)
(* the same source (SpecTwice), the tokeniser character by character       *)
(* (SpecLex), and the text of a condition run on an accumulator machine    *)
(* (SpecCond).                                                             *)
(***************************************************************************)
EXTENDS Integers, Sequences, FiniteSets, TLC

\* Largest number of source lines of an input.
MaxLines == 4

-----------------------------------------------------------------------------
(* Tokens (enum TokenType, struct Token).  All tokens of one logical line  *)
(* carry the same line number, which the parser reads from line[0].        *)

Tok(type, s, n) == [type |-> type, s |-> s, n |-> n]
Identifier(s) == Tok("Identifier", s, 0)
Number(n) == Tok("Number", "", n)
If == Tok("If", "", 0)
EndIf == Tok("EndIf", "", 0)
Else == Tok("Else", "", 0)
While == Tok("While", "", 0)
EndWhile == Tok("EndWhile", "", 0)
Break == Tok("Break", "", 0)
Input == Tok("Input", "", 0)
Output == Tok("Output", "", 0)
True == Tok("True", "", 0)
OperatorAdd == Tok("OperatorAdd", "", 0)
OperatorSub == Tok("OperatorSub", "", 0)
OperatorAssignment == Tok("OperatorAssignment", "", 0)
OperatorInequality == Tok("OperatorInequality", "", 0)
OperatorEquality == Tok("OperatorEquality", "", 0)
OperatorGreaterThan == Tok("OperatorGreaterThan", "", 0)
OperatorLessThan == Tok("OperatorLessThan", "", 0)
OperatorGreaterThanInclusive == Tok("OperatorGreaterThanInclusive", "", 0)
OperatorLessThanInclusive == Tok("OperatorLessThanInclusive", "", 0)

\* line.get(k) of the Rust slice (0-based): present iff k < line.len().
Has(line, k) == k < Len(line)
Get(line, k) == line[k + 1]

-----------------------------------------------------------------------------
(* Words of the emitted text.                                              *)

Word(k, name, n, suf) == [k |-> k, name |-> name, n |-> n, suf |-> suf]
Mn(m) == Word("mn", m, 0, "")
NL == Word("nl", "", 0, "")
Lit(n) == Word("num", "", n, "")
var_(s) == Word("var", s, 0, "")
const_(n) == Word("const", "", n, "")
while_(L, suf) == Word("while", "", L, suf)
if_(L, suf) == Word("if", "", L, suf)


-----------------------------------------------------------------------------
(* The parser's locals, kept in one record st:                             *)
(*   vars        HashMap<&str, i32>  (a function on the declared names)    *)
(*   consts      HashSet<i32>                                              *)
(*   program     String              (sequence of words)                   *)
(*   scope_stack Vec<Scope>          (top of stack = last element)         *)

ScopeWhile(start_line) == [variant |-> "While", start_line |-> start_line]
ScopeIf(if_start_line, else_start_line, has_else) ==
    [variant |-> "If", if_start_line |-> if_start_line,
     else_start_line |-> else_start_line, has_else |-> has_else]

NoVars == [s \in {} |-> 0]
ContainsKey(vars, s) == s \in DOMAIN vars
Insert(vars, s, n) == [k \in DOMAIN vars \cup {s} |-> IF k = s THEN n ELSE vars[k]]

Emit(st, words) == [st EXCEPT !.program = @ \o words]
\* AddConst without the insertion into the set.
AddConst_Forget(st, n) == st
AddConst(st, n) == [st EXCEPT !.consts = @ \cup {n}]
Declare(st, s, n) == [st EXCEPT !.vars = Insert(@, s, n)]
Push(st, frame) == [st EXCEPT !.scope_stack = Append(@, frame)]
Pop(st) == [st EXCEPT !.scope_stack = SubSeq(@, 1, Len(@) - 1)]
Top(st) == st.scope_stack[Len(st.scope_stack)]

(* What the handling of one line does to the control flow of the loop:     *)
(*   "go"       fall through to the next statement of the match arm,       *)
(*   "continue" the line is finished, go on with the next line,            *)
(*   "err"      return Err(diagnostic).                                    *)
(* A diagnostic is "Error on line {line}[ token {token}]: {msg}['{name}']" *)
(* with token = -1 when the message names no token.                        *)
NoErr == [line |-> -1, token |-> -1, msg |-> "", name |-> ""]
Go(st) == [ret |-> "go", st |-> st, err |-> NoErr]
Continue(st) == [ret |-> "continue", st |-> st, err |-> NoErr]
Err(st, line_no, token, msg, name) ==
    [ret |-> "err", st |-> st,
     err |-> [line |-> line_no, token |-> token, msg |-> msg, name |-> name]]
\* line[k] with k >= line.len(): the slice index panics.
Panic(st) == [ret |-> "panic", st |-> st, err |-> NoErr]

-----------------------------------------------------------------------------
(* Assignment: first token Identifier(assigned_to).                        *)

\* FoldApplies without the test of the line's length.
FoldApplies_AnyLength(line, st) == ~ContainsKey(st.vars, Get(line, 0).s)

\* The condition of the constant-initialisation optimisation.
FoldApplies(line, st) ==
    Len(line) = 3 /\ ~ContainsKey(st.vars, Get(line, 0).s)

\* AssignOperand2 adding the folded literal to the constant set.
AssignOperand2_FoldAddsConst(line, line_no, st) ==
    IF ~Has(line, 2)
    THEN Err(st, line_no, -1, "Expected identifier or number", "")
    ELSE LET t == Get(line, 2) IN
         CASE t.type = "Identifier" ->
                IF ~ContainsKey(st.vars, t.s)
                THEN Err(st, line_no, 2, "Variable unknown identifier", t.s)
                ELSE Go(Emit(st, <<Mn("LDA"), var_(t.s), NL>>))
           [] t.type = "Number" ->
                IF FoldApplies(line, st)
                THEN Continue(Declare(AddConst(st, t.n), Get(line, 0).s, t.n))
                ELSE Go(Emit(AddConst(st, t.n), <<Mn("LDA"), const_(t.n), NL>>))
           [] OTHER -> Err(st, line_no, 2, "Expected identifier or number", "")

\* Token 2: the left operand.
AssignOperand2(line, line_no, st) ==
    IF ~Has(line, 2)
    THEN Err(st, line_no, -1, "Expected identifier or number", "")
    ELSE LET t == Get(line, 2) IN
         CASE t.type = "Identifier" ->
                IF ~ContainsKey(st.vars, t.s)
                THEN Err(st, line_no, 2, "Variable unknown identifier", t.s)
                ELSE Go(Emit(st, <<Mn("LDA"), var_(t.s), NL>>))
           [] t.type = "Number" ->
                IF FoldApplies(line, st)
                THEN Continue(Declare(st, Get(line, 0).s, t.n))
                ELSE Go(Emit(AddConst(st, t.n), <<Mn("LDA"), const_(t.n), NL>>))
           [] OTHER -> Err(st, line_no, 2, "Expected identifier or number", "")

\* The 3-token form ends here: store the loaded value.
AssignStoreOnly(assigned_to, st) ==
    Emit(Declare(st, assigned_to, 0), <<Mn("STA"), var_(assigned_to), NL>>)

\* Token 3: absent, or the operator.
AssignOperator(line, line_no, st) ==
    IF ~Has(line, 3)
    THEN Continue(AssignStoreOnly(Get(line, 0).s, st))
    ELSE LET t == Get(line, 3) IN
         CASE t.type = "OperatorAdd" -> Go(Emit(st, <<Mn("ADD")>>))
           [] t.type = "OperatorSub" -> Go(Emit(st, <<Mn("SUB")>>))
           [] OTHER -> Err(st, line_no, 3, "Expected '+' or '-'", "")

\* Token 4: the right operand.
AssignOperand4(line, line_no, st) ==
    IF ~Has(line, 4)
    THEN Err(st, line_no, -1, "Expected identifer or number", "")
    ELSE LET t == Get(line, 4) IN
         CASE t.type = "Identifier" ->
                IF ~ContainsKey(st.vars, t.s)
                THEN Err(st, line_no, 2, "Unknown identifier", t.s)
                ELSE Go(Emit(st, <<var_(t.s), NL>>))
           [] t.type = "Number" ->
                Go(Emit(AddConst(st, t.n), <<const_(t.n), NL>>))
           [] OTHER -> Err(st, line_no, 4, "Expected identifer or number", "")

\* AssignStore without the look at line.get(5).
AssignStore_NoSixthTokenCheck(line, line_no, st) ==
    LET assigned_to == Get(line, 0).s
        st1 == Emit(st, <<Mn("STA"), var_(assigned_to), NL>>)
    IN  IF ~ContainsKey(st1.vars, assigned_to)
        THEN Go(Declare(st1, assigned_to, 0))
        ELSE Go(st1)

\* Store, reject a sixth token, declare the target if it is new.
AssignStore(line, line_no, st) ==
    LET assigned_to == Get(line, 0).s
        st1 == Emit(st, <<Mn("STA"), var_(assigned_to), NL>>)
    IN  IF Has(line, 5)
        THEN Err(st1, line_no, 5, "Unexpected token", "")
        ELSE IF ~ContainsKey(st1.vars, assigned_to)
             THEN Go(Declare(st1, assigned_to, 0))
             ELSE Go(st1)

Assignment(line, line_no, st) ==
    IF Len(line) = 1 \/ Get(line, 1) # OperatorAssignment
    THEN Err(st, line_no, -1,
             "Identifer at the beginning of a line must be followed by '='", "")
    ELSE LET o2 == AssignOperand2(line, line_no, st) IN
         IF o2.ret # "go" THEN o2
         ELSE LET o3 == AssignOperator(line, line_no, o2.st) IN
         IF o3.ret # "go" THEN o3
         ELSE LET o4 == AssignOperand4(line, line_no, o3.st) IN
         IF o4.ret # "go" THEN o4
         ELSE AssignStore(line, line_no, o4.st)

-----------------------------------------------------------------------------
(* Input and Output.                                                       *)

InputStmt(line, line_no, st) ==
    IF ~Has(line, 1)
    THEN Err(st, line_no, -1, "Expected identifier", "")
    ELSE LET t == Get(line, 1) IN
         IF t.type # "Identifier"
         THEN Err(st, line_no, 1, "Expected identifier", "")
         ELSE LET st1 == IF ~ContainsKey(st.vars, t.s) THEN Declare(st, t.s, 0) ELSE st
                  st2 == Emit(st1, <<Mn("INP"), NL, Mn("STA"), var_(t.s), NL>>)
              IN  IF Has(line, 2)
                  THEN Err(st2, line_no, 2, "Unexpected token", "")
                  ELSE Go(st2)

OutputOperand1(line, line_no, st) ==
    IF ~Has(line, 1)
    THEN Err(st, line_no, -1, "Expected identifier or number", "")
    ELSE LET t == Get(line, 1) IN
         CASE t.type = "Identifier" ->
                IF ~ContainsKey(st.vars, t.s)
                THEN Err(st, line_no, 2, "Variable unknown identifier", t.s)
                ELSE Go(Emit(st, <<Mn("LDA"), var_(t.s), NL>>))
           [] t.type = "Number" ->
                Go(Emit(AddConst(st, t.n), <<Mn("LDA"), const_(t.n), NL>>))
           [] OTHER -> Err(st, line_no, 2, "Expected identifier or number", "")

OutputOperator(line, line_no, st) ==
    IF ~Has(line, 2)
    THEN Continue(Emit(st, <<Mn("OUT"), NL>>))
    ELSE LET t == Get(line, 2) IN
         CASE t.type = "OperatorAdd" -> Go(Emit(st, <<Mn("ADD")>>))
           [] t.type = "OperatorSub" -> Go(Emit(st, <<Mn("SUB")>>))
           [] OTHER -> Err(st, line_no, 3, "Expected '+' or '-'", "")

OutputOperand3(line, line_no, st) ==
    IF ~Has(line, 3)
    THEN Err(st, line_no, -1, "Expected identifer or number", "")
    ELSE LET t == Get(line, 3) IN
         CASE t.type = "Identifier" ->
                IF ~ContainsKey(st.vars, t.s)
                THEN Err(st, line_no, 2, "Variable unknown identifier", t.s)
                ELSE Go(Emit(st, <<var_(t.s), NL, Mn("OUT"), NL>>))
           [] t.type = "Number" ->
                Go(Emit(AddConst(st, t.n), <<const_(t.n), NL, Mn("OUT"), NL>>))
           [] OTHER -> Err(st, line_no, 4, "Expected identifer or number", "")

OutputStmt(line, line_no, st) ==
    LET o1 == OutputOperand1(line, line_no, st) IN
    IF o1.ret # "go" THEN o1
    ELSE LET o2 == OutputOperator(line, line_no, o1.st) IN
    IF o2.ret # "go" THEN o2
    ELSE OutputOperand3(line, line_no, o2.st)

-----------------------------------------------------------------------------
(* Conditions of while, if and else if.  base is the index of the left     *)
(* operand: 1 after `while` and `if`, 2 after `else if`.                   *)

\* format!("var_{s}\n") for an identifier, format!("const_{n}") for a number.
CondRender(t) == IF t.type = "Identifier" THEN <<var_(t.s), NL>> ELSE <<const_(t.n)>>

\* One operand of a condition; badtoken is the token number of the message
\* for an operand that is neither an identifier nor a number.
CondOperand(line, k, badtoken, line_no, st) ==
    IF ~Has(line, k)
    THEN Err(st, line_no, -1,
             "Expected condition formed of two arguments and a comparison operator", "")
    ELSE LET t == Get(line, k) IN
         CASE t.type = "Identifier" ->
                IF ~ContainsKey(st.vars, t.s)
                THEN Err(st, line_no, 2, "Variable unknown identifier", t.s)
                ELSE Go(st)
           [] t.type = "Number" -> Go(AddConst(st, t.n))
           [] OTHER -> Err(st, line_no, badtoken, "Expected identifier or number", "")

ComparisonOperators ==
    {OperatorEquality, OperatorInequality, OperatorGreaterThan, OperatorLessThan,
     OperatorGreaterThanInclusive, OperatorLessThanInclusive}

\* CondSchema loading the left operand for `>` as it does for `<`.
CondSchema_GreaterUnswapped(op, lhs, rhs, T, F) ==
    LET Seq4(a, b, br, l1, l2) ==
            <<Mn("LDA")>> \o a \o <<NL, Mn("SUB")>> \o b
              \o <<NL, Mn(br), l1, NL, Mn("BRA"), l2, NL>>
    IN  CASE op = OperatorEquality -> Seq4(lhs, rhs, "BRZ", T, F)
          [] op = OperatorInequality -> Seq4(lhs, rhs, "BRZ", F, T)
          [] op = OperatorGreaterThan -> Seq4(lhs, rhs, "BRP", F, T)
          [] op = OperatorLessThan -> Seq4(lhs, rhs, "BRP", F, T)
          [] op = OperatorGreaterThanInclusive -> Seq4(lhs, rhs, "BRP", T, F)
          [] op = OperatorLessThanInclusive -> Seq4(rhs, lhs, "BRP", T, F)

\* The instruction sequence of a comparison; T and F are the labels to branch to.
CondSchema(op, lhs, rhs, T, F) ==
    LET Seq4(a, b, br, l1, l2) ==
            <<Mn("LDA")>> \o a \o <<NL, Mn("SUB")>> \o b
              \o <<NL, Mn(br), l1, NL, Mn("BRA"), l2, NL>>
    IN  CASE op = OperatorEquality -> Seq4(lhs, rhs, "BRZ", T, F)
          [] op = OperatorInequality -> Seq4(lhs, rhs, "BRZ", F, T)
          [] op = OperatorGreaterThan -> Seq4(rhs, lhs, "BRP", F, T)
          [] op = OperatorLessThan -> Seq4(lhs, rhs, "BRP", F, T)
          [] op = OperatorGreaterThanInclusive -> Seq4(lhs, rhs, "BRP", T, F)
          [] op = OperatorLessThanInclusive -> Seq4(rhs, lhs, "BRP", T, F)

\* Condition indexing the operator before it looks for the right operand.
Condition_OperatorBeforeRhs(line, base, line_no, st, pre, T, F) ==
    LET lhs == CondOperand(line, base, 1, line_no, st) IN
    IF lhs.ret # "go" THEN lhs
    ELSE IF ~Has(line, base + 1) THEN Panic(lhs.st)
    ELSE LET rhs == CondOperand(line, base + 2, 3, line_no, lhs.st) IN
    IF rhs.ret # "go" THEN rhs
    ELSE LET st1 == Emit(rhs.st, pre)
             op == Get(line, base + 1)
         IN  IF op \in ComparisonOperators
             THEN Go(Emit(st1, CondSchema(op, CondRender(Get(line, base)),
                                          CondRender(Get(line, base + 2)), T, F)
                                 \o <<T>>))
             ELSE Err(st1, line_no, 2, "Expected comparison operator", "")

\* lhs, rhs, then pre (what an `else if` emits before its condition), the
\* schema chosen by the operator between them (read by direct index), and
\* the body label.
Condition(line, base, line_no, st, pre, T, F) ==
    LET lhs == CondOperand(line, base, 1, line_no, st) IN
    IF lhs.ret # "go" THEN lhs
    ELSE LET rhs == CondOperand(line, base + 2, 3, line_no, lhs.st) IN
    IF rhs.ret # "go" THEN rhs
    ELSE IF ~Has(line, base + 1) THEN Panic(rhs.st)
    ELSE LET st1 == Emit(rhs.st, pre)
             op == Get(line, base + 1)
         IN  IF op \in ComparisonOperators
             THEN Go(Emit(st1, CondSchema(op, CondRender(Get(line, base)),
                                          CondRender(Get(line, base + 2)), T, F)
                                 \o <<T>>))
             ELSE Err(st1, line_no, 2, "Expected comparison operator", "")

-----------------------------------------------------------------------------
(* while, break, endwhile.                                                 *)

\* WhileStmt writing the body label for `while true` as well.
WhileStmt_TrueWritesBodyLabel(line, line_no, st) ==
    LET st1 == Push(Emit(st, <<while_(line_no, "")>>), ScopeWhile(line_no)) IN
    IF Has(line, 1) /\ Get(line, 1) = True
    THEN Continue(Emit(st1, <<while_(line_no, "body")>>))
    ELSE Condition(line, 1, line_no, st1, <<>>,
                   while_(line_no, "body"), while_(line_no, "end"))

\* WhileStmt with the two branch targets exchanged.
WhileStmt_TargetsExchanged(line, line_no, st) ==
    LET st1 == Push(Emit(st, <<while_(line_no, "")>>), ScopeWhile(line_no)) IN
    IF Has(line, 1) /\ Get(line, 1) = True
    THEN Continue(st1)
    ELSE Condition(line, 1, line_no, st1, <<>>,
                   while_(line_no, "end"), while_(line_no, "body"))

WhileStmt(line, line_no, st) ==
    LET st1 == Push(Emit(st, <<while_(line_no, "")>>), ScopeWhile(line_no)) IN
    IF Has(line, 1) /\ Get(line, 1) = True
    THEN Continue(st1)
    ELSE Condition(line, 1, line_no, st1, <<>>,
                   while_(line_no, "body"), while_(line_no, "end"))

\* The frames of the stack that are While frames, as indices.
WhileFrames(scope_stack) ==
    {k \in 1..Len(scope_stack) : scope_stack[k].variant = "While"}

\* NearestWhile with the stack walked bottom-up.
NearestWhile_Outermost(scope_stack) ==
    scope_stack[CHOOSE k \in WhileFrames(scope_stack) :
                    \A j \in WhileFrames(scope_stack) : k <= j]

\* scope_stack.iter().rev(): the first While frame met from the top.
NearestWhile(scope_stack) ==
    scope_stack[CHOOSE k \in WhileFrames(scope_stack) :
                    \A j \in WhileFrames(scope_stack) : j <= k]

BreakStmt(line, line_no, st) ==
    IF WhileFrames(st.scope_stack) # {}
    THEN Continue(Emit(st, <<Mn("BRA"),
                             while_(NearestWhile(st.scope_stack).start_line, "end"), NL>>))
    ELSE Err(st, line_no, -1, "'break' while not in loop", "")

\* EndWhileStmt closing whatever frame is on top.
EndWhileStmt_AnyFrame(line, line_no, st) ==
    IF st.scope_stack = <<>>
    THEN Err(st, line_no, -1,
             "'endwhile' found while 'while' loop was not inner most control flow construct", "")
    ELSE LET frame == Top(st)
             start_line == IF frame.variant = "While" THEN frame.start_line
                           ELSE frame.if_start_line
         IN  Go(Emit(Pop(st), <<Mn("BRA"), while_(start_line, ""), NL,
                                while_(start_line, "end")>>))

EndWhileStmt(line, line_no, st) ==
    IF st.scope_stack = <<>>
    THEN Err(st, line_no, -1,
             "'endwhile' found while 'while' loop was not inner most control flow construct", "")
    ELSE LET frame == Top(st) IN
         IF frame.variant = "While"
         THEN Go(Emit(Pop(st), <<Mn("BRA"), while_(frame.start_line, ""), NL,
                                 while_(frame.start_line, "end")>>))
         ELSE Err(Pop(st), line_no, -1,
                  "'endwhile' found while 'while' loop was not inner most control flow construct", "")

-----------------------------------------------------------------------------
(* if, else, else if, endif.                                               *)

IfStmt(line, line_no, st) ==
    Condition(line, 1, line_no, Push(st, ScopeIf(line_no, line_no, FALSE)), <<>>,
              if_(line_no, "body"), if_(line_no, "else"))

\* ElseJump leaving to the end label of the preceding arm's line.
ElseJump_ToPrecedingArm(frame) ==
    <<Mn("BRA"), if_(frame.else_start_line, "end"), NL, if_(frame.else_start_line, "else")>>

\* What every `else` and `else if` emits first: leave the previous arm and
\* open the next one.
ElseJump(frame) ==
    <<Mn("BRA"), if_(frame.if_start_line, "end"), NL, if_(frame.else_start_line, "else")>>

\* ElseFrame keeping the line of the arm before.
ElseFrame_KeepsArmLine(frame, line_no) ==
    ScopeIf(frame.if_start_line, frame.else_start_line, TRUE)

\* The frame an `else` or `else if` on line line_no pushes back.
ElseFrame(frame, line_no) == ScopeIf(frame.if_start_line, line_no, TRUE)

ElseStmt(line, line_no, st) ==
    IF st.scope_stack = <<>>
    THEN Err(st, line_no, -1,
             "'else' found while 'if' statement was not inner most control flow construct", "")
    ELSE LET frame == Top(st)
             st1 == Pop(st)
         IN  IF frame.variant # "If"
             THEN Err(st1, line_no, -1, "expected 'else if' or just 'else'", "")
             ELSE IF ~Has(line, 1)
             THEN Go(Emit(Push(st1, ElseFrame(frame, line_no)), ElseJump(frame)))
             ELSE IF Get(line, 1) = If
             THEN Condition(line, 2, line_no, Push(st1, ElseFrame(frame, line_no)),
                            ElseJump(frame), if_(line_no, "body"), if_(line_no, "else"))
             ELSE Err(st1, line_no, -1,
                      "'else' found while 'if' statement was not inner most control flow construct", "")

\* The label the `endif` carries.
EndIfLabel(frame) ==
    IF frame.has_else
    THEN if_(frame.if_start_line, "end")
    ELSE if_(frame.if_start_line, "else")

\* EndIfStmt reading the top frame without popping it.
EndIfStmt_Peek(line, line_no, st) ==
    IF st.scope_stack = <<>>
    THEN Err(st, line_no, -1,
             "'endif' found while 'if' statement was not inner most control flow construct", "")
    ELSE LET frame == Top(st) IN
         IF frame.variant = "If"
         THEN Go(Emit(st, <<EndIfLabel(frame), Mn("ADD"), const_(0), NL>>))
         ELSE Err(Pop(st), line_no, -1,
                  "'endif' found while 'if' statement was not inner most control flow construct", "")

EndIfStmt(line, line_no, st) ==
    IF st.scope_stack = <<>>
    THEN Err(st, line_no, -1,
             "'endif' found while 'if' statement was not inner most control flow construct", "")
    ELSE LET frame == Top(st) IN
         IF frame.variant = "If"
         THEN Go(Emit(Pop(st), <<EndIfLabel(frame), Mn("ADD"), const_(0), NL>>))
         ELSE Err(Pop(st), line_no, -1,
                  "'endif' found while 'if' statement was not inner most control flow construct", "")

\* Any other first token.
OtherStmt(line, line_no, st) ==
    Err(st, line_no, -1,
        "Expected assignment, input, output, or start or end of if statement or while loop", "")

-----------------------------------------------------------------------------
(* The inputs: logical lines as the tokeniser and the split on NewLine     *)
(* hand them to the parser.  Well-formed statements over two identifiers   *)
(* and two literals, every comparison operator, and malformed lines of     *)
(* every statement kind.                                                   *)

x == Identifier("x")
y == Identifier("y")

AssignmentLines ==
    {<<x, OperatorAssignment, Number(1)>>,
     <<y, OperatorAssignment, x>>,
     <<x, OperatorAssignment, x, OperatorAdd, Number(1)>>,
     <<y, OperatorAssignment, Number(1), OperatorSub, x>>,
     <<x>>,
     <<x, x, Number(1)>>,
     <<x, OperatorAssignment>>,
     <<x, OperatorAssignment, OperatorAdd>>,
     <<x, OperatorAssignment, Number(1), OperatorEquality, Number(1)>>,
     <<x, OperatorAssignment, Number(1), OperatorAdd>>,
     <<x, OperatorAssignment, Number(1), OperatorAdd, OperatorAdd>>,
     <<x, OperatorAssignment, Number(1), OperatorAdd, Number(1), Number(1)>>}

InputLines ==
    {<<Input, x>>, <<Input>>, <<Input, Number(1)>>, <<Input, x, x>>}

OutputLines ==
    {<<Output, x>>,
     <<Output, x, OperatorAdd, y>>,
     <<Output>>,
     <<Output, If>>,
     <<Output, x, x>>,
     <<Output, Number(1), OperatorAdd>>,
     <<Output, Number(1), OperatorAdd, Output>>,
     <<Output, Number(1), OperatorAdd, Number(1), Number(1)>>}

WhileLines ==
    {<<While, True>>,
     <<While, x, OperatorLessThan, Number(1)>>,
     <<While>>,
     <<While, x>>,
     <<While, EndWhile>>,
     <<While, Number(1), OperatorLessThan>>,
     <<While, Number(1), OperatorLessThan, True>>,
     <<While, Number(1), OperatorAdd, Number(1)>>,
     <<While, True, OperatorEquality, y>>,
     <<While, Number(1), OperatorInequality, Number(1), Number(1)>>}

IfLines ==
    {<<If, x, OperatorGreaterThanInclusive, y>>,
     <<If, Number(0), OperatorGreaterThan, Number(1)>>,
     <<If>>,
     <<If, True>>,
     <<If, Number(1), OperatorEquality>>,
     <<If, Number(1), OperatorAssignment, Number(1)>>}

ElseLines ==
    {<<Else>>,
     <<Else, If, x, OperatorLessThanInclusive, y>>,
     <<Else, If, Number(1), OperatorEquality, Number(0)>>,
     <<Else, x>>,
     <<Else, If>>,
     <<Else, If, Number(1), OperatorEquality>>,
     <<Else, If, Number(1), OperatorAdd, Number(1)>>}

OtherLines == {<<Number(1)>>, <<OperatorAssignment>>, <<True>>}

LineSet ==
    AssignmentLines \cup InputLines \cup OutputLines \cup WhileLines
    \cup {<<Break>>, <<EndWhile>>} \cup IfLines \cup ElseLines \cup {<<EndIf>>}
    \cup OtherLines \cup {<<>>}

-----------------------------------------------------------------------------
(* The state of one call of compile.                                       *)
(*   src     the lines of the input consumed so far (line i of the source  *)
(*           is src[i + 1]; the tokens of that line carry line number i)   *)
(*   vars, consts, program, scope_stack   the parser's locals              *)
(*   pc      "lines" while in the loop over the lines, "returned" after    *)
(*   result  what compile returned: Ok(text) or Err(diagnostic)            *)
(*   again   what a second call of compile on the same source returned     *)
(*   cpu     an accumulator machine running emitted text; off while the    *)
(*           compiler runs                                                 *)
(*   lex     a call of tokenise followed character by character; off while *)
(*           the parser is followed                                        *)

VARIABLES src, vars, consts, program, scope_stack, pc, result, again, cpu, lex

compiler == <<src, vars, consts, program, scope_stack, pc, result, again>>

state == <<src, vars, consts, program, scope_stack, pc, result, again, cpu, lex>>

CpuOff == [on |-> FALSE]
LexOff == [on |-> FALSE]

St == [vars |-> vars, consts |-> consts, program |-> program,
       scope_stack |-> scope_stack]

NoResult == [kind |-> "None", text |-> <<>>, err |-> NoErr]
ResultOk(text) == [kind |-> "Ok", text |-> text, err |-> NoErr]
ResultErr(err) == [kind |-> "Err", text |-> <<>>, err |-> err]
ResultPanic == [kind |-> "Panic", text |-> <<>>, err |-> NoErr]

\* Init without consts.insert(0).
Init_NoZeroSeed ==
    /\ src = <<>>
    /\ vars = NoVars
    /\ consts = {}
    /\ program = <<>>
    /\ scope_stack = <<>>
    /\ pc = "lines"
    /\ result = NoResult
    /\ again = NoResult
    /\ cpu = CpuOff
    /\ lex = LexOff

Init ==
    /\ src = <<>>
    /\ vars = NoVars
    /\ consts = {0}
    /\ program = <<>>
    /\ scope_stack = <<>>
    /\ pc = "lines"
    /\ result = NoResult
    /\ again = NoResult
    /\ cpu = CpuOff
    /\ lex = LexOff

\* The orders in which iterating a hash set or map of the keys S can yield them.
Orders(S) ==
    {f \in [1..Cardinality(S) -> S] : \A i, j \in 1..Cardinality(S) : f[i] = f[j] => i = j}

RECURSIVE Flatten(_)
Flatten(ss) == IF ss = <<>> THEN <<>> ELSE Head(ss) \o Flatten(Tail(ss))

\* DataSection with HLT written after the DAT lines.
DataSection_HltLast(vs, vorder, corder) ==
    Flatten([i \in DOMAIN vorder |->
                <<var_(vorder[i]), Mn("DAT"), Lit(vs[vorder[i]]), NL>>])
    \o <<NL>>
    \o Flatten([i \in DOMAIN corder |->
                   <<const_(corder[i]), Mn("DAT"), Lit(corder[i]), NL>>])
    \o <<Mn("HLT"), NL, NL>>

\* HLT, the variables' DAT lines, a blank line, the constants' DAT lines.
DataSection(vs, vorder, corder) ==
    <<Mn("HLT"), NL, NL>>
    \o Flatten([i \in DOMAIN vorder |->
                   <<var_(vorder[i]), Mn("DAT"), Lit(vs[vorder[i]]), NL>>])
    \o <<NL>>
    \o Flatten([i \in DOMAIN corder |->
                   <<const_(corder[i]), Mn("DAT"), Lit(corder[i]), NL>>])

\* AfterLine recording the diagnostic without leaving the loop.
AfterLine_KeepGoing(o) ==
    IF o.ret = "err"
    THEN pc' = pc /\ result' = ResultErr(o.err)
    ELSE UNCHANGED <<pc, result>>

\* What a line of the loop does once its match arm has run: an error
\* returns from parse_tokens, anything else goes on with the next line.
AfterLine(o) ==
    IF o.ret = "err"
    THEN pc' = "returned" /\ result' = ResultErr(o.err)
    ELSE IF o.ret = "panic"
    THEN pc' = "returned" /\ result' = ResultPanic
    ELSE UNCHANGED <<pc, result>>

\* o is what the match arm of the line made of the locals.
Step(line, o) ==
    /\ src' = Append(src, line)
    /\ vars' = o.st.vars
    /\ consts' = o.st.consts
    /\ program' = o.st.program
    /\ scope_stack' = o.st.scope_stack
    /\ AfterLine(o)
    /\ UNCHANGED <<again, cpu, lex>>

Reading == pc = "lines" /\ Len(src) < MaxLines

FirstIs(line, type) == line # <<>> /\ line[1].type = type

SkipEmptyLine ==
    /\ Reading
    /\ \E line \in LineSet :
         /\ line = <<>>
         /\ src' = Append(src, line)
         /\ UNCHANGED <<vars, consts, program, scope_stack, pc, result, again, cpu, lex>>

ParseAssignment ==
    Reading /\ \E line \in LineSet : FirstIs(line, "Identifier") /\ Step(line, Assignment(line, Len(src), St))
ParseInput ==
    Reading /\ \E line \in LineSet : FirstIs(line, "Input") /\ Step(line, InputStmt(line, Len(src), St))
ParseOutput ==
    Reading /\ \E line \in LineSet : FirstIs(line, "Output") /\ Step(line, OutputStmt(line, Len(src), St))
ParseWhile ==
    Reading /\ \E line \in LineSet : FirstIs(line, "While") /\ Step(line, WhileStmt(line, Len(src), St))
ParseBreak ==
    Reading /\ \E line \in LineSet : FirstIs(line, "Break") /\ Step(line, BreakStmt(line, Len(src), St))
ParseEndWhile ==
    Reading /\ \E line \in LineSet : FirstIs(line, "EndWhile") /\ Step(line, EndWhileStmt(line, Len(src), St))
ParseIf ==
    Reading /\ \E line \in LineSet : FirstIs(line, "If") /\ Step(line, IfStmt(line, Len(src), St))
ParseElse ==
    Reading /\ \E line \in LineSet : FirstIs(line, "Else") /\ Step(line, ElseStmt(line, Len(src), St))
ParseEndIf ==
    Reading /\ \E line \in LineSet : FirstIs(line, "EndIf") /\ Step(line, EndIfStmt(line, Len(src), St))
ParseOther ==
    /\ Reading
    /\ \E line \in LineSet :
         /\ line # <<>>
         /\ line[1].type \notin {"Identifier", "Input", "Output", "While", "Break",
                                 "EndWhile", "If", "Else", "EndIf"}
         /\ Step(line, OtherStmt(line, Len(src), St))

\* End of input: the finalizer, and Ok(program).
Finalize ==
    /\ pc = "lines"
    /\ \E vorder \in Orders(DOMAIN vars), corder \in Orders(consts) :
         /\ program' = program \o DataSection(vars, vorder, corder)
         /\ result' = ResultOk(program')
    /\ pc' = "returned"
    /\ UNCHANGED <<src, vars, consts, scope_stack, again, cpu, lex>>

Next ==
    \/ SkipEmptyLine
    \/ ParseAssignment
    \/ ParseInput
    \/ ParseOutput
    \/ ParseWhile
    \/ ParseBreak
    \/ ParseEndWhile
    \/ ParseIf
    \/ ParseElse
    \/ ParseEndIf
    \/ ParseOther
    \/ Finalize

Spec == Init /\ [][Next]_state

-----------------------------------------------------------------------------
(* compile called a second time on the source of a finished compilation.   *)

\* The match on the first token of a line.
Arm(line, line_no, st) ==
    CASE line[1].type = "Identifier" -> Assignment(line, line_no, st)
      [] line[1].type = "Input" -> InputStmt(line, line_no, st)
      [] line[1].type = "Output" -> OutputStmt(line, line_no, st)
      [] line[1].type = "While" -> WhileStmt(line, line_no, st)
      [] line[1].type = "Break" -> BreakStmt(line, line_no, st)
      [] line[1].type = "EndWhile" -> EndWhileStmt(line, line_no, st)
      [] line[1].type = "If" -> IfStmt(line, line_no, st)
      [] line[1].type = "Else" -> ElseStmt(line, line_no, st)
      [] line[1].type = "EndIf" -> EndIfStmt(line, line_no, st)
      [] OTHER -> OtherStmt(line, line_no, st)

\* The loop over the lines from line line_no on: the locals at the end of
\* the loop, or the first error.
RECURSIVE ParseLines(_, _, _)
ParseLines(lines, line_no, st) ==
    IF line_no >= Len(lines) THEN Go(st)
    ELSE IF lines[line_no + 1] = <<>> THEN ParseLines(lines, line_no + 1, st)
    ELSE LET o == Arm(lines[line_no + 1], line_no, st) IN
         IF o.ret \in {"err", "panic"} THEN o ELSE ParseLines(lines, line_no + 1, o.st)

CompileAgain ==
    /\ pc = "returned"
    /\ again = NoResult
    /\ LET o == ParseLines(src, 0, [vars |-> NoVars, consts |-> {0},
                                    program |-> <<>>, scope_stack |-> <<>>])
       IN  IF o.ret = "panic"
           THEN again' = ResultPanic
           ELSE IF o.ret = "err"
           THEN again' = ResultErr(o.err)
           ELSE \E vorder \in Orders(DOMAIN o.st.vars), corder \in Orders(o.st.consts) :
                    again' = ResultOk(o.st.program
                                      \o DataSection(o.st.vars, vorder, corder))
    /\ UNCHANGED <<src, vars, consts, program, scope_stack, pc, result, cpu, lex>>

NextTwice == Next \/ CompileAgain

SpecTwice == Init /\ [][NextTwice]_state

-----------------------------------------------------------------------------
(* Reading the emitted text the way an LMC assembler does: the text is     *)
(* cut into lines, blank lines are dropped, and on each line the words in  *)
(* front of the mnemonic are labels and the word after it is the operand.  *)

RECURSIVE AsmLinesFrom(_, _)
AsmLinesFrom(text, cur) ==
    IF text = <<>>
    THEN IF cur = <<>> THEN <<>> ELSE <<cur>>
    ELSE IF Head(text) = NL
         THEN (IF cur = <<>> THEN <<>> ELSE <<cur>>) \o AsmLinesFrom(Tail(text), <<>>)
         ELSE AsmLinesFrom(Tail(text), Append(cur, Head(text)))

AsmLines(text) == AsmLinesFrom(text, <<>>)
AsmLineSet(text) == LET ls == AsmLines(text) IN {ls[i] : i \in DOMAIN ls}

\* The position of the first mnemonic of an assembly line, 0 if it has none.
MnPos(l) ==
    IF \E i \in DOMAIN l : l[i].k = "mn"
    THEN CHOOSE i \in DOMAIN l : l[i].k = "mn" /\ \A j \in 1..(i - 1) : l[j].k # "mn"
    ELSE 0

LabelsOf(l) == LET m == MnPos(l) IN {l[i] : i \in {j \in DOMAIN l : m = 0 \/ j < m}}
HasOperand(l) == LET m == MnPos(l) IN m > 0 /\ Len(l) > m
Mnemonic(l) == l[MnPos(l)].name
Operand(l) == l[MnPos(l) + 1]

\* The same over the set ls of the lines of a text.
DefinedIn(ls) == UNION {LabelsOf(l) : l \in ls}
OperandsIn(ls, mnemonics) ==
    {Operand(l) : l \in {m \in ls : HasOperand(m) /\ Mnemonic(m) \in mnemonics}}

-----------------------------------------------------------------------------
(* The line a step consumes, for formulas about one step.                  *)

Consumed(line) == pc = "lines" /\ src' = Append(src, line)
Accepted == pc' = "lines"
Rejected == pc' = "returned" /\ result'.kind = "Err"

-----------------------------------------------------------------------------
\* C1: in every successful compilation of a program whose `if` and `while`
\* constructs are all closed, every label that is the operand of a BRA, BRZ
\* or BRP is defined as a label prefix somewhere in the emitted assembly.
C1_BranchTargetsDefined ==
    (result.kind = "Ok" /\ scope_stack = <<>>)
        => LET ls == AsmLineSet(result.text)
           IN  OperandsIn(ls, {"BRA", "BRZ", "BRP"}) \subseteq DefinedIn(ls)

-----------------------------------------------------------------------------
\* C2: symbol closure.  In every successful compilation every var_X that is
\* the operand of LDA, ADD, SUB or STA has a line `var_X DAT N` and every
\* const_N operand has a line `const_N DAT N`.
C2_SymbolClosure ==
    result.kind = "Ok" =>
        LET ls == AsmLineSet(result.text) IN
        \A w \in OperandsIn(ls, {"LDA", "ADD", "SUB", "STA"}) :
            /\ w.k \in {"var", "const"}
            /\ w.k = "var" =>
                 \E l \in ls : Len(l) = 3 /\ l[1] = w /\ l[2] = Mn("DAT") /\ l[3].k = "num"
            /\ w.k = "const" => <<w, Mn("DAT"), Lit(w.n)>> \in ls

\* A successful compilation whose code has both variables and a literal
\* among its instruction operands.
C2_Witness ==
    /\ result.kind = "Ok"
    /\ LET ls == AsmLineSet(result.text)
       IN  /\ var_("y") \in OperandsIn(ls, {"STA"})
           /\ const_(1) \in OperandsIn(ls, {"LDA"})
           /\ var_("x") \in OperandsIn(ls, {"SUB"})

-----------------------------------------------------------------------------
\* C3: once a variable is in the variable table no later statement changes
\* its recorded initial value.
C3_InitialValueKept ==
    [][\A s \in DOMAIN vars : s \in DOMAIN vars' /\ vars'[s] = vars[s]]_state

-----------------------------------------------------------------------------
\* C4: constant-init fold.  A 3-token assignment `x = n` to an undeclared x
\* with a numeric right-hand side appends nothing to the program buffer and
\* declares x with initial value n; every other accepted assignment appends
\* code and declares a new target with initial value 0.
C4_IsFoldLine(line) ==
    /\ Len(line) = 3
    /\ line[1].type = "Identifier"
    /\ line[2] = OperatorAssignment
    /\ line[3].type = "Number"
    /\ line[1].s \notin DOMAIN vars

C4_ConstantInitFold ==
    [][\A line \in LineSet :
         (Consumed(line) /\ FirstIs(line, "Identifier")) =>
            IF C4_IsFoldLine(line)
            THEN /\ Accepted
                 /\ program' = program
                 /\ vars' = Insert(vars, line[1].s, line[3].n)
            ELSE Accepted =>
                 /\ Len(program') > Len(program)
                 /\ SubSeq(program', 1, Len(program)) = program
                 /\ line[1].s \in DOMAIN vars'
                 /\ line[1].s \notin DOMAIN vars => vars'[line[1].s] = 0]_state

\* The fold has happened: `x = 1` as the first line declared x with 1 and
\* emitted nothing; and a 5-token assignment with a numeric operand 2 and a
\* new target has been accepted too.
C4_Witness ==
    /\ pc = "lines"
    /\ Len(src) = 2
    /\ src[1] = <<x, OperatorAssignment, Number(1)>>
    /\ src[2] = <<y, OperatorAssignment, Number(1), OperatorSub, x>>
    /\ vars = [s \in {"x", "y"} |-> IF s = "x" THEN 1 ELSE 0]

-----------------------------------------------------------------------------
\* C5: at the end of every successful compilation the scope stack is empty.
C5_StackEmptyAtEnd ==
    result.kind = "Ok" => scope_stack = <<>>

-----------------------------------------------------------------------------
\* C6: declaration before use.  Whenever a line has an undeclared
\* identifier in a read position (operand 2 or 4 of an assignment, operand
\* 1 or 3 of `output`, either side of the condition of `while`, `if` or
\* `else if`), compilation fails with a diagnostic that names that line,
\* and no assembly is returned.
C6_ReadPositions(line) ==
    CASE FirstIs(line, "Identifier") -> {2, 4}
      [] FirstIs(line, "Output") -> {1, 3}
      [] FirstIs(line, "While") \/ FirstIs(line, "If") -> {1, 3}
      [] FirstIs(line, "Else") /\ Has(line, 1) /\ Get(line, 1) = If -> {2, 4}
      [] OTHER -> {}

C6_ReadsUndeclared(line) ==
    \E k \in C6_ReadPositions(line) :
        /\ Has(line, k)
        /\ Get(line, k).type = "Identifier"
        /\ Get(line, k).s \notin DOMAIN vars

C6_DeclarationBeforeUse ==
    [][\A line \in LineSet :
         (Consumed(line) /\ C6_ReadsUndeclared(line)) =>
            /\ Rejected
            /\ result'.err.line = Len(src)
            /\ result'.text = <<>>]_state

\* The same for every line but a `while` header whose first operand is
\* `true`: the parser leaves such a line at `true` and reads no further.
C6_ExceptAfterWhileTrue ==
    [][\A line \in LineSet :
         (/\ Consumed(line)
          /\ C6_ReadsUndeclared(line)
          /\ ~(FirstIs(line, "While") /\ Has(line, 1) /\ Get(line, 1) = True)) =>
            /\ Rejected
            /\ result'.err.line = Len(src)
            /\ result'.text = <<>>]_state

-----------------------------------------------------------------------------
\* C7: the first erroneous line ends the compilation.  The result is the
\* diagnostic of that line, the last line consumed, with no assembly text,
\* and nothing is processed after the return.
C7_FirstErrorTerminates ==
    [][/\ result'.kind = "Err" =>
            /\ pc' = "returned"
            /\ result'.text = <<>>
            /\ result'.err.line = Len(src') - 1
       /\ result.kind = "Err" => UNCHANGED state]_state

\* An error on the third line, after code had been emitted for the lines
\* before it.
C7_Witness ==
    /\ result.kind = "Err"
    /\ result.err.line = 2
    /\ Len(src) = 3
    /\ program # <<>>
    /\ result.text = <<>>

-----------------------------------------------------------------------------
\* C8: structural errors.  `endwhile` fails unless the top frame is a While
\* frame; `else`, `else if` and `endif` fail unless the top frame is an If
\* frame, whether the stack is empty or its top is of the other variant.
C8_TopIs(variant) ==
    scope_stack # <<>> /\ scope_stack[Len(scope_stack)].variant = variant

C8_StructuralErrors ==
    [][\A line \in LineSet :
         Consumed(line) =>
            /\ (FirstIs(line, "EndWhile") /\ ~C8_TopIs("While")) => Rejected
            /\ ((FirstIs(line, "Else") \/ FirstIs(line, "EndIf")) /\ ~C8_TopIs("If"))
                 => Rejected]_state

\* `endwhile` directly inside an open `if` has been rejected.
C8_Witness ==
    /\ result.kind = "Err"
    /\ src = <<<<If, Number(0), OperatorGreaterThan, Number(1)>>, <<EndWhile>>>>

-----------------------------------------------------------------------------
\* C9: `break` emits `BRA while_L_end` for the topmost While frame of the
\* stack (the frames above it are If frames), leaves the stack unchanged,
\* and fails when the stack holds no While frame.
C9_EnclosingWhile(L) ==
    \E k \in DOMAIN scope_stack :
        /\ scope_stack[k].variant = "While"
        /\ scope_stack[k].start_line = L
        /\ \A j \in (k + 1)..Len(scope_stack) : scope_stack[j].variant = "If"

C9_Break ==
    [][\A line \in LineSet :
         (Consumed(line) /\ FirstIs(line, "Break")) =>
            /\ scope_stack' = scope_stack
            /\ IF \E k \in DOMAIN scope_stack : scope_stack[k].variant = "While"
               THEN /\ Accepted
                    /\ \E L \in 0..Len(src) :
                         /\ C9_EnclosingWhile(L)
                         /\ program' = program \o <<Mn("BRA"), while_(L, "end"), NL>>
               ELSE Rejected]_state

\* A `break` inside an `if` inside a loop that is itself inside a loop has
\* jumped to the end of the inner loop.
C9_Witness ==
    /\ pc = "lines"
    /\ Len(src) = 4
    /\ src[4] = <<Break>>
    /\ scope_stack = <<ScopeWhile(0), ScopeWhile(1), ScopeIf(2, 2, FALSE)>>
    /\ SubSeq(program, Len(program) - 2, Len(program))
         = <<Mn("BRA"), while_(1, "end"), NL>>

-----------------------------------------------------------------------------
\* C10: scope closure.  An accepted `while` or `if` pushes exactly one
\* frame, an accepted `else` or `else if` replaces the top frame, an
\* accepted `endwhile` or `endif` pops exactly one frame, and assignment,
\* input, output and break leave the stack as it is.
C10_ScopeClosure ==
    [][\A line \in LineSet :
         Consumed(line) =>
            /\ ((FirstIs(line, "While") \/ FirstIs(line, "If")) /\ Accepted) =>
                 /\ Len(scope_stack') = Len(scope_stack) + 1
                 /\ SubSeq(scope_stack', 1, Len(scope_stack)) = scope_stack
            /\ (FirstIs(line, "Else") /\ Accepted) =>
                 /\ Len(scope_stack') = Len(scope_stack)
                 /\ SubSeq(scope_stack', 1, Len(scope_stack) - 1)
                      = SubSeq(scope_stack, 1, Len(scope_stack) - 1)
            /\ ((FirstIs(line, "EndWhile") \/ FirstIs(line, "EndIf")) /\ Accepted) =>
                 /\ scope_stack # <<>>
                 /\ scope_stack' = SubSeq(scope_stack, 1, Len(scope_stack) - 1)
            /\ (\/ line = <<>>
                \/ FirstIs(line, "Identifier") \/ FirstIs(line, "Input")
                \/ FirstIs(line, "Output") \/ FirstIs(line, "Break")) =>
                 scope_stack' = scope_stack]_state

\* An `if ... else ... endif` inside a loop has been closed and the stack
\* is back at the depth it had before the `if`.
C10_Witness ==
    /\ pc = "lines"
    /\ src = <<<<While, True>>,
               <<If, Number(0), OperatorGreaterThan, Number(1)>>,
               <<Else>>,
               <<EndIf>>>>
    /\ scope_stack = <<ScopeWhile(0)>>

-----------------------------------------------------------------------------
(* Running a condition.  A header `while lhs op rhs`, `if lhs op rhs` or    *)
(* `else if lhs op rhs` is parsed by its match arm, and the text it emitted *)
(* is run on an accumulator machine: LDA loads the cell of its operand,     *)
(* SUB subtracts it, BRZ branches iff the accumulator is 0, BRP iff it is   *)
(* not negative, BRA always.  x holds lv and y holds rv when the condition  *)
(* runs; const_n holds n.                                                   *)

MaxVal == 2
Values == (0 - MaxVal)..MaxVal
HeaderKinds == {"while", "if", "else if"}

\* The locals when the header is met: x and y are declared, and an
\* `else if` stands in an `if` opened on line 0.
BeforeHeader(kind) ==
    [vars |-> [s \in {"x", "y"} |-> 0], consts |-> {0}, program |-> <<>>,
     scope_stack |-> IF kind = "else if" THEN <<ScopeIf(0, 0, FALSE)>> ELSE <<>>]

HeaderLineNo(kind) == IF kind = "else if" THEN 1 ELSE 0

HeaderLine(kind, lhs, op, rhs) ==
    CASE kind = "while" -> <<While, lhs, op, rhs>>
      [] kind = "if" -> <<If, lhs, op, rhs>>
      [] kind = "else if" -> <<Else, If, lhs, op, rhs>>

ParseHeader(kind, line) ==
    CASE kind = "while" -> WhileStmt(line, HeaderLineNo(kind), BeforeHeader(kind))
      [] kind = "if" -> IfStmt(line, HeaderLineNo(kind), BeforeHeader(kind))
      [] kind = "else if" -> ElseStmt(line, HeaderLineNo(kind), BeforeHeader(kind))

CpuOn(kind, op, lv, rv, ip) ==
    [on |-> TRUE, kind |-> kind, op |-> op, lv |-> lv, rv |-> rv,
     ip |-> ip, acc |-> 0, at |-> <<>>]

\* Where the condition is entered: its LDA, which carries the label the
\* header wrote in front of it (while_L, or the previous arm's if_E_else).
Entry(text) ==
    LET ls == AsmLines(text)
    IN  CHOOSE i \in DOMAIN ls : MnPos(ls[i]) > 0 /\ Mnemonic(ls[i]) = "LDA"

\* The machine is switched on after the header line has been parsed.
InitCond ==
    \E kind \in HeaderKinds, op \in ComparisonOperators, lv, rv \in Values,
       lvar, rvar \in BOOLEAN :
        LET lhs == IF lvar THEN x ELSE Number(lv)
            rhs == IF rvar THEN y ELSE Number(rv)
            line == HeaderLine(kind, lhs, op, rhs)
            o == ParseHeader(kind, line)
        IN  /\ o.ret = "go"
            /\ src = IF kind = "else if" THEN <<<<If, x, op, y>>, line>> ELSE <<line>>
            /\ vars = o.st.vars
            /\ consts = o.st.consts
            /\ program = o.st.program
            /\ scope_stack = o.st.scope_stack
            /\ pc = "lines"
            /\ result = NoResult
            /\ again = NoResult
            /\ cpu = CpuOn(kind, op, lv, rv, Entry(o.st.program))
            /\ lex = LexOff

\* The cell a data label names.
Mem(w) == IF w.k = "const" THEN w.n ELSE IF w.name = "x" THEN cpu.lv ELSE cpu.rv

\* The instruction under the instruction pointer.
Fetched == AsmLines(program)[cpu.ip]

Fetches(mnemonic) ==
    /\ cpu.on
    /\ cpu.at = <<>>
    /\ cpu.ip <= Len(AsmLines(program))
    /\ MnPos(Fetched) > 0
    /\ Mnemonic(Fetched) = mnemonic

ExecLDA ==
    /\ Fetches("LDA")
    /\ cpu' = [cpu EXCEPT !.acc = Mem(Operand(Fetched)), !.ip = @ + 1]
    /\ UNCHANGED <<compiler, lex>>

ExecSUB ==
    /\ Fetches("SUB")
    /\ cpu' = [cpu EXCEPT !.acc = @ - Mem(Operand(Fetched)), !.ip = @ + 1]
    /\ UNCHANGED <<compiler, lex>>

ExecBRZ ==
    /\ Fetches("BRZ")
    /\ cpu' = IF cpu.acc = 0 THEN [cpu EXCEPT !.at = <<Operand(Fetched)>>]
              ELSE [cpu EXCEPT !.ip = @ + 1]
    /\ UNCHANGED <<compiler, lex>>

ExecBRP ==
    /\ Fetches("BRP")
    /\ cpu' = IF cpu.acc >= 0 THEN [cpu EXCEPT !.at = <<Operand(Fetched)>>]
              ELSE [cpu EXCEPT !.ip = @ + 1]
    /\ UNCHANGED <<compiler, lex>>

ExecBRA ==
    /\ Fetches("BRA")
    /\ cpu' = [cpu EXCEPT !.at = <<Operand(Fetched)>>]
    /\ UNCHANGED <<compiler, lex>>

NextCond == ExecLDA \/ ExecSUB \/ ExecBRZ \/ ExecBRP \/ ExecBRA

SpecCond == InitCond /\ [][NextCond]_state

-----------------------------------------------------------------------------
\* The relation an operator token stands for.
C11_Holds(op, a, b) ==
    CASE op = OperatorEquality -> a = b
      [] op = OperatorInequality -> a # b
      [] op = OperatorGreaterThan -> a > b
      [] op = OperatorLessThan -> a < b
      [] op = OperatorGreaterThanInclusive -> a >= b
      [] op = OperatorLessThanInclusive -> a <= b

\* The labels of the body (T) and of what follows when the condition fails (F).
C11_T(kind) ==
    IF kind = "while" THEN while_(HeaderLineNo(kind), "body") ELSE if_(HeaderLineNo(kind), "body")
C11_F(kind) ==
    IF kind = "while" THEN while_(HeaderLineNo(kind), "end") ELSE if_(HeaderLineNo(kind), "else")

\* C11: for each of the six comparison operators and all values of lhs and
\* rhs in the range, the text emitted for `while`, `if` and `else if` runs
\* until it transfers control, and it transfers control to T exactly when
\* `lhs op rhs` holds and to F otherwise.
C11_ConditionSchema ==
    cpu.on =>
        /\ cpu.at = <<>> => \E m \in {"LDA", "SUB", "BRZ", "BRP", "BRA"} : Fetches(m)
        /\ cpu.at # <<>> =>
              cpu.at = IF C11_Holds(cpu.op, cpu.lv, cpu.rv)
                       THEN <<C11_T(cpu.kind)>> ELSE <<C11_F(cpu.kind)>>

\* `else if x > 0` run with x = 1 has reached the body label.
C11_Witness ==
    /\ cpu.on
    /\ cpu.kind = "else if" /\ cpu.op = OperatorGreaterThan
    /\ cpu.lv = 1 /\ cpu.rv = 0
    /\ src[2] = <<Else, If, x, OperatorGreaterThan, Number(0)>>
    /\ cpu.at = <<if_(1, "body")>>

-----------------------------------------------------------------------------
\* A header line: `while ...`, `if ...` or `else if ...`.
C12_IsHeader(line) ==
    /\ line # <<>>
    /\ \/ line[1].type \in {"While", "If"}
       \/ line[1] = Else /\ Has(line, 1) /\ Get(line, 1) = If

\* The tokens of a header after its keyword or keywords.
C12_Cond(line) ==
    SubSeq(line, IF line[1] = Else THEN 3 ELSE 2, Len(line))

C12_IsOperand(t) == t.type \in {"Identifier", "Number"}

\* C12: a `while`, `if` or `else if` header (other than the bare
\* `while true`) is accepted only when its condition is exactly three
\* tokens, an operand, a comparison operator and an operand.
C12_HeaderShape ==
    [][\A line \in LineSet :
          (Consumed(line) /\ C12_IsHeader(line) /\ line # <<While, True>> /\ Accepted)
              => LET c == C12_Cond(line)
                 IN  /\ Len(c) = 3
                     /\ C12_IsOperand(c[1])
                     /\ c[2] \in ComparisonOperators
                     /\ C12_IsOperand(c[3])]_state

-----------------------------------------------------------------------------
\* The shape of an assignment: 3 or 5 tokens, `=` second, operands third
\* and fifth, `+` or `-` fourth.
C13_Shape(line) ==
    /\ Len(line) \in {3, 5}
    /\ line[2] = OperatorAssignment
    /\ line[3].type \in {"Identifier", "Number"}
    /\ Len(line) = 5 =>
          /\ line[4] \in {OperatorAdd, OperatorSub}
          /\ line[5].type \in {"Identifier", "Number"}

\* C13: a line that starts with an identifier is accepted only if it has
\* the shape of an assignment; a line of 1, 2, 4 or more than 5 tokens, or
\* with a wrong token at one of the positions, returns an error.
C13_AssignmentShape ==
    [][\A line \in LineSet :
          (Consumed(line) /\ FirstIs(line, "Identifier"))
              => /\ Accepted => C13_Shape(line)
                 /\ ~C13_Shape(line) => Rejected]_state

\* `x = 1 + 1 1` has been rejected for its sixth token.
C13_Witness ==
    /\ src = <<<<x, OperatorAssignment, Number(1), OperatorAdd, Number(1), Number(1)>>>>
    /\ result.kind = "Err"
    /\ result.err.token = 5
    /\ result.err.msg = "Unexpected token"

-----------------------------------------------------------------------------
\* The two forms of an output line: `output a` and `output a +/- b`.
C14_Shape(line) ==
    /\ Len(line) \in {2, 4}
    /\ line[2].type \in {"Identifier", "Number"}
    /\ Len(line) = 4 =>
          /\ line[3] \in {OperatorAdd, OperatorSub}
          /\ line[4].type \in {"Identifier", "Number"}

\* C14: an `output` line is accepted only in the short or the long form; a
\* line with tokens after the second operand, or with no second operand
\* after the operator, is rejected.
C14_OutputShape ==
    [][\A line \in LineSet :
          (Consumed(line) /\ FirstIs(line, "Output") /\ Accepted)
              => C14_Shape(line)]_state

-----------------------------------------------------------------------------
\* C15: two compilations of the same source return the same thing; when
\* they succeed, the same assembly text, the order of the `var_X DAT` lines
\* and of the `const_N DAT` lines included.
C15_Deterministic ==
    again # NoResult => again = result

-----------------------------------------------------------------------------
\* C16: the constant set contains 0 in every reachable state, and the line
\* `const_0 DAT 0` is in the text of every successful compilation.
C16_ConstantZero ==
    /\ 0 \in consts
    /\ result.kind = "Ok" =>
          <<const_(0), Mn("DAT"), Lit(0)>> \in AsmLineSet(result.text)

\* The empty source has compiled: no constant was used, no `endif` written.
C16_Witness ==
    /\ src = <<>>
    /\ result.kind = "Ok"
    /\ result.text = <<Mn("HLT"), NL, NL, NL, const_(0), Mn("DAT"), Lit(0), NL>>

-----------------------------------------------------------------------------
(* tokenise.  The source text is a sequence of characters; tokens are     *)
(* records of the line they stand on and their type.  An identifier keeps *)
(* its lexeme as the sequence of its characters.                          *)

MaxChars == 5
Chars == {"i", "f", "1", "/", " ", "\n"}
Texts == UNION {[1..k -> Chars] : k \in 0..MaxChars}

Token(line, token_type) == [line |-> line, token_type |-> token_type]
NewLine == Tok("NewLine", "", 0)

\* str::lines(): the pieces between line feeds; a line feed at the end of
\* the text does not open a further line.
RECURSIVE LinesFrom(_, _)
LinesFrom(text, cur) ==
    IF text = <<>>
    THEN IF cur = <<>> THEN <<>> ELSE <<cur>>
    ELSE IF Head(text) = "\n"
         THEN <<cur>> \o LinesFrom(Tail(text), <<>>)
         ELSE LinesFrom(Tail(text), Append(cur, Head(text)))

Lines(text) == LinesFrom(text, <<>>)

\* StripComment keeping the whole line.
StripComment_KeepAll(line) == line

\* line.splitn(2, "//")[0]: what stands before the first "//".
RECURSIVE StripComment(_)
StripComment(line) ==
    IF Len(line) < 2 THEN line
    ELSE IF line[1] = "/" /\ line[2] = "/" THEN <<>>
    ELSE <<Head(line)>> \o StripComment(Tail(line))

\* split_whitespace(): the maximal runs of characters that are not blank.
RECURSIVE SplitFrom(_, _)
SplitFrom(s, cur) ==
    IF s = <<>>
    THEN IF cur = <<>> THEN <<>> ELSE <<cur>>
    ELSE IF Head(s) = " "
         THEN (IF cur = <<>> THEN <<>> ELSE <<cur>>) \o SplitFrom(Tail(s), <<>>)
         ELSE SplitFrom(Tail(s), Append(cur, Head(s)))

SplitWhitespace(s) == SplitFrom(s, <<>>)

Digits == {"0", "1", "2", "3", "4", "5", "6", "7", "8", "9"}
DigitValue(c) ==
    CASE c = "0" -> 0 [] c = "1" -> 1 [] c = "2" -> 2 [] c = "3" -> 3 [] c = "4" -> 4
      [] c = "5" -> 5 [] c = "6" -> 6 [] c = "7" -> 7 [] c = "8" -> 8 [] c = "9" -> 9

RECURSIVE DigitsValue(_, _)
DigitsValue(ds, acc) ==
    IF ds = <<>> THEN acc ELSE DigitsValue(Tail(ds), 10 * acc + DigitValue(Head(ds)))

\* str::parse::<i32>: an optional sign and at least one digit, in range.
ParseI32(lexeme) ==
    LET signed == lexeme # <<>> /\ Head(lexeme) \in {"+", "-"}
        ds == IF signed THEN Tail(lexeme) ELSE lexeme
        n == IF signed /\ Head(lexeme) = "-" THEN 0 - DigitsValue(ds, 0)
             ELSE DigitsValue(ds, 0)
    IN  IF ds # <<>> /\ (\A k \in DOMAIN ds : ds[k] \in Digits)
           /\ n >= (0 - 2147483647) - 1 /\ n <= 2147483647
        THEN [ok |-> TRUE, n |-> n]
        ELSE [ok |-> FALSE, n |-> 0]

\* The keyword and operator table; anything else is an identifier.
Keyword(lexeme) ==
    CASE lexeme = <<"i", "f">> -> If
      [] lexeme = <<"e", "n", "d", "i", "f">> -> EndIf
      [] lexeme = <<"e", "l", "s", "e">> -> Else
      [] lexeme = <<"w", "h", "i", "l", "e">> -> While
      [] lexeme = <<"e", "n", "d", "w", "h", "i", "l", "e">> -> EndWhile
      [] lexeme = <<"b", "r", "e", "a", "k">> -> Break
      [] lexeme = <<"i", "n", "p", "u", "t">> -> Input
      [] lexeme = <<"o", "u", "t", "p", "u", "t">> -> Output
      [] lexeme = <<"p", "r", "i", "n", "t">> -> Output
      [] lexeme = <<"t", "r", "u", "e">> -> True
      [] lexeme = <<"+">> -> OperatorAdd
      [] lexeme = <<"-">> -> OperatorSub
      [] lexeme = <<"=">> -> OperatorAssignment
      [] lexeme = <<"=", "=">> -> OperatorEquality
      [] lexeme = <<"!", "=">> -> OperatorInequality
      [] lexeme = <<">">> -> OperatorGreaterThan
      [] lexeme = <<"<">> -> OperatorLessThan
      [] lexeme = <<">", "=">> -> OperatorGreaterThanInclusive
      [] lexeme = <<"<", "=">> -> OperatorLessThanInclusive
      [] OTHER -> Identifier(lexeme)

(* One call of tokenise as a machine:                                      *)
(*   text     the source text                                              *)
(*   i        the index of the line the outer loop is at                   *)
(*   in_line  whether the inner loop over the lexemes of line i runs       *)
(*   rest     the lexemes of line i not looked at yet                      *)
(*   tokens   the tokens pushed so far                                     *)
(*   done     whether tokenise has returned                                *)
LexOn(text) ==
    [on |-> TRUE, text |-> text, i |-> 0, in_line |-> FALSE, rest |-> <<>>,
     tokens |-> <<>>, done |-> FALSE]

InitLex ==
    /\ src = <<>>
    /\ vars = NoVars
    /\ consts = {0}
    /\ program = <<>>
    /\ scope_stack = <<>>
    /\ pc = "lines"
    /\ result = NoResult
    /\ again = NoResult
    /\ cpu = CpuOff
    /\ lex \in {LexOn(text) : text \in Texts}

\* The outer loop takes the next line, strips its comment and splits it.
LexLine ==
    /\ lex.on /\ ~lex.done /\ ~lex.in_line
    /\ lex.i < Len(Lines(lex.text))
    /\ lex' = [lex EXCEPT !.in_line = TRUE,
                          !.rest = SplitWhitespace(StripComment(Lines(lex.text)[lex.i + 1]))]
    /\ UNCHANGED <<compiler, cpu>>

\* The inner loop pushes a Number for a lexeme that parses as an i32.
LexNumber ==
    /\ lex.on /\ lex.in_line /\ lex.rest # <<>>
    /\ ParseI32(Head(lex.rest)).ok
    /\ lex' = [lex EXCEPT !.rest = Tail(@),
                          !.tokens = Append(@, Token(lex.i, Number(ParseI32(Head(lex.rest)).n)))]
    /\ UNCHANGED <<compiler, cpu>>

\* ... and a keyword, an operator or an identifier for any other lexeme.
LexWord ==
    /\ lex.on /\ lex.in_line /\ lex.rest # <<>>
    /\ ~ParseI32(Head(lex.rest)).ok
    /\ lex' = [lex EXCEPT !.rest = Tail(@),
                          !.tokens = Append(@, Token(lex.i, Keyword(Head(lex.rest))))]
    /\ UNCHANGED <<compiler, cpu>>

\* After the lexemes of the line, its NewLine.
LexNewLine ==
    /\ lex.on /\ lex.in_line /\ lex.rest = <<>>
    /\ lex' = [lex EXCEPT !.in_line = FALSE, !.i = @ + 1,
                          !.tokens = Append(@, Token(lex.i, NewLine))]
    /\ UNCHANGED <<compiler, cpu>>

LexReturn ==
    /\ lex.on /\ ~lex.done /\ ~lex.in_line
    /\ lex.i = Len(Lines(lex.text))
    /\ lex' = [lex EXCEPT !.done = TRUE]
    /\ UNCHANGED <<compiler, cpu>>

NextLex == LexLine \/ LexNumber \/ LexWord \/ LexNewLine \/ LexReturn

SpecLex == InitLex /\ [][NextLex]_state

-----------------------------------------------------------------------------
\* The number of lines of a text: one per line feed, and one more for what
\* stands after the last line feed.
C17_SourceLines(text) ==
    Cardinality({p \in DOMAIN text : text[p] = "\n"})
        + (IF text # <<>> /\ text[Len(text)] # "\n" THEN 1 ELSE 0)

\* The position of the first "//" of a line, past its end if it has none.
C17_CommentAt(line) ==
    LET at == {p \in 1..(Len(line) - 1) : line[p] = "/" /\ line[p + 1] = "/"}
    IN  IF at = {} THEN Len(line) + 1 ELSE CHOOSE p \in at : \A q \in at : p <= q

\* The positions in front of the comment where a lexeme starts.
C17_LexemeStarts(line) ==
    {p \in 1..(C17_CommentAt(line) - 1) :
        line[p] # " " /\ (p = 1 \/ line[p - 1] = " ")}

\* The positions of the tokens of source line i, and of its NewLine tokens.
C17_TokensOf(i) ==
    {k \in DOMAIN lex.tokens :
        lex.tokens[k].line = i /\ lex.tokens[k].token_type.type # "NewLine"}
C17_NewLinesOf(i) ==
    {k \in DOMAIN lex.tokens :
        lex.tokens[k].line = i /\ lex.tokens[k].token_type.type = "NewLine"}

\* C17: tokens are pushed in non-decreasing line order and nothing follows
\* the NewLine of its line; when tokenise returns there is exactly one
\* NewLine per source line, tagged with the line's zero-based index, and
\* the tokens of a line are those of the lexemes that start in front of its
\* first `//`, an identifier holding only characters in front of it.
C17_CommentsAndLines ==
    lex.on =>
        LET toks == lex.tokens
            lines == Lines(lex.text)
        IN  /\ \A k \in 1..(Len(toks) - 1) : toks[k].line <= toks[k + 1].line
            /\ \A k \in DOMAIN toks :
                  toks[k].token_type.type = "NewLine"
                      => \A j \in (k + 1)..Len(toks) : toks[j].line > toks[k].line
            /\ lex.done =>
                  /\ Len(lines) = C17_SourceLines(lex.text)
                  /\ \A k \in DOMAIN toks : toks[k].line \in 0..(Len(lines) - 1)
                  /\ \A i \in 0..(Len(lines) - 1) :
                        /\ Cardinality(C17_NewLinesOf(i)) = 1
                        /\ Cardinality(C17_TokensOf(i))
                             = Cardinality(C17_LexemeStarts(lines[i + 1]))
                        /\ \A k \in C17_TokensOf(i) :
                              toks[k].token_type.type = "Identifier" =>
                                \E p \in C17_LexemeStarts(lines[i + 1]) :
                                    LET s == toks[k].token_type.s
                                    IN  /\ p + Len(s) <= C17_CommentAt(lines[i + 1])
                                        /\ s = SubSeq(lines[i + 1], p, p + Len(s) - 1)

\* `1 //i` has been tokenised: Number(1) and the NewLine of line 0.
C17_Witness ==
    /\ lex.on /\ lex.done
    /\ lex.text = <<"1", " ", "/", "/", "i">>
    /\ Len(lex.tokens) = 2
    /\ lex.tokens[1].token_type.type = "Number"
    /\ lex.tokens[2] = Token(0, NewLine)

-----------------------------------------------------------------------------
\* C18: in the text of every successful compilation each line has an
\* instruction and at most one label in front of it: no line carries two
\* labels and no label stands without an instruction.
C18_OneLabelPerInstruction ==
    result.kind = "Ok" =>
        \A l \in AsmLineSet(result.text) : MnPos(l) \in {1, 2}

-----------------------------------------------------------------------------
\* The constructs open after the first n lines of a source whose lines were
\* all accepted, outermost first: for an `if` chain the line of its `if`
\* (opened) and the line of its latest arm header (arm).
RECURSIVE C19_Open(_, _)
C19_Open(lines, n) ==
    IF n = 0 THEN <<>>
    ELSE LET s == C19_Open(lines, n - 1)
             line == lines[n]
         IN  CASE FirstIs(line, "If") ->
                    Append(s, [kind |-> "if", opened |-> n - 1, arm |-> n - 1])
               [] FirstIs(line, "While") ->
                    Append(s, [kind |-> "while", opened |-> n - 1, arm |-> n - 1])
               [] FirstIs(line, "Else") ->
                    Append(SubSeq(s, 1, Len(s) - 1), [s[Len(s)] EXCEPT !.arm = n - 1])
               [] FirstIs(line, "EndIf") \/ FirstIs(line, "EndWhile") ->
                    SubSeq(s, 1, Len(s) - 1)
               [] OTHER -> s

\* What a step appended to the program buffer.
C19_Emitted == SubSeq(program', Len(program) + 1, Len(program'))

-----------------------------------------------------------------------------
\* What the header `while lhs op rhs` on line L has to stand for in the
\* text: the label while_L, the condition with T = while_L_body and
\* F = while_L_end, the label while_L_body.
C20_Header(header, L) ==
    <<while_(L, "")>>
    \o CondSchema(Get(header, 2), CondRender(Get(header, 1)), CondRender(Get(header, 3)),
                  while_(L, "body"), while_(L, "end"))
    \o <<while_(L, "body")>>

\* C20: when an `endwhile` is accepted, L being the line of the innermost
\* open `while` and its header a relational condition, the text holds the
\* header's label, condition and body label, then the body's code, and the
\* step appends `BRA while_L` and the label `while_L_end`.
C20_WhileLayout ==
    [][\A line \in LineSet :
          (Consumed(line) /\ Accepted /\ FirstIs(line, "EndWhile"))
              => LET s == C19_Open(src, Len(src))
                     L == s[Len(s)].opened
                     header == src[L + 1]
                 IN  /\ s[Len(s)].kind = "while"
                     /\ Get(header, 1) # True =>
                           /\ \E p \in 1..(Len(program) - Len(C20_Header(header, L)) + 1) :
                                 SubSeq(program, p, p + Len(C20_Header(header, L)) - 1)
                                     = C20_Header(header, L)
                           /\ C19_Emitted = <<Mn("BRA"), while_(L, ""), NL,
                                              while_(L, "end")>>]_state

\* Two loops nested on lines 1 and 2: the `endwhile` on line 3 closed the
\* inner one.
C20_Witness ==
    /\ src = <<<<x, OperatorAssignment, Number(1)>>,
               <<While, x, OperatorLessThan, Number(1)>>,
               <<While, x, OperatorLessThan, Number(1)>>,
               <<EndWhile>>>>
    /\ pc = "lines"
    /\ scope_stack = <<ScopeWhile(1)>>
    /\ SubSeq(program, Len(program) - 4, Len(program))
         = <<while_(2, "body"), Mn("BRA"), while_(2, ""), NL, while_(2, "end")>>

-----------------------------------------------------------------------------
C21_IsWhileTrue(line) ==
    FirstIs(line, "While") /\ Has(line, 1) /\ Get(line, 1) = True

\* The index in s of the innermost open `while`, 0 if none is open.
C21_InnermostWhile(s) ==
    LET ws == {k \in DOMAIN s : s[k].kind = "while"}
    IN  IF ws = {} THEN 0 ELSE CHOOSE k \in ws : \A j \in ws : j <= k

\* C21: `while true` on line L appends just the label while_L and pushes a
\* While frame for L; a `break` whose innermost open loop is that one
\* appends `BRA while_L_end`; the `endwhile` that closes it appends
\* `BRA while_L` and the label while_L_end.
C21_WhileTrue ==
    [][\A line \in LineSet :
          Consumed(line) =>
              LET s == C19_Open(src, Len(src))
                  w == C21_InnermostWhile(s)
              IN  /\ C21_IsWhileTrue(line) =>
                        /\ Accepted
                        /\ C19_Emitted = <<while_(Len(src), "")>>
                        /\ scope_stack' = Append(scope_stack, ScopeWhile(Len(src)))
                  /\ (FirstIs(line, "Break") /\ w > 0
                         /\ C21_IsWhileTrue(src[s[w].opened + 1])) =>
                        /\ Accepted
                        /\ C19_Emitted = <<Mn("BRA"), while_(s[w].opened, "end"), NL>>
                  /\ (FirstIs(line, "EndWhile") /\ w > 0 /\ w = Len(s)
                         /\ C21_IsWhileTrue(src[s[w].opened + 1])) =>
                        /\ Accepted
                        /\ C19_Emitted = <<Mn("BRA"), while_(s[w].opened, ""), NL,
                                           while_(s[w].opened, "end")>>]_state

\* `while true`, `break`, `endwhile` on lines 0 to 2.
C21_Witness ==
    /\ src = <<<<While, True>>, <<Break>>, <<EndWhile>>>>
    /\ pc = "lines"
    /\ scope_stack = <<>>
    /\ program = <<while_(0, ""), Mn("BRA"), while_(0, "end"), NL,
                   Mn("BRA"), while_(0, ""), NL, while_(0, "end")>>

-----------------------------------------------------------------------------
\* C22: the text of a successful compilation has exactly one HLT; the lines
\* in front of it are the statements' instructions (no DAT among them); the
\* lines after it are one `var_X DAT N` per entry of the variable table, N
\* the value the table holds, and then one `const_N DAT N` per member of the
\* constant set, and nothing else.
C22_Finalizer ==
    result.kind = "Ok" =>
        LET ls == AsmLines(result.text)
            hlt == {i \in DOMAIN ls : Mnemonic(ls[i]) = "HLT"}
            h == CHOOSE i \in hlt : TRUE
            nv == Cardinality(DOMAIN vars)
            nc == Cardinality(consts)
        IN  /\ Cardinality(hlt) = 1
            /\ \A i \in 1..(h - 1) : Mnemonic(ls[i]) # "DAT"
            /\ Len(ls) = h + nv + nc
            /\ \A X \in DOMAIN vars :
                  \E i \in (h + 1)..(h + nv) : ls[i] = <<var_(X), Mn("DAT"), Lit(vars[X])>>
            /\ \A N \in consts :
                  \E i \in (h + nv + 1)..(h + nv + nc) :
                      ls[i] = <<const_(N), Mn("DAT"), Lit(N)>>

\* `x = 1`, `y = x`, `x = x + 1` has compiled: two variables, two constants.
C22_Witness ==
    /\ src = <<<<x, OperatorAssignment, Number(1)>>,
               <<y, OperatorAssignment, x>>,
               <<x, OperatorAssignment, x, OperatorAdd, Number(1)>>>>
    /\ result.kind = "Ok"
    /\ vars = [s \in {"x", "y"} |-> IF s = "x" THEN 1 ELSE 0]
    /\ consts = {0, 1}
    /\ Len(AsmLines(result.text)) = 10

-----------------------------------------------------------------------------
\* C23: at the end of a successful compilation the constant set is {0}
\* together with the N of every `const_N` that is the operand of an
\* instruction of the text; a literal taken by the constant-init fold is
\* therefore not in it unless it is used elsewhere.
C23_ConstantSetExact ==
    result.kind = "Ok" =>
        LET ls == AsmLineSet(result.text)
            rendered == {w \in OperandsIn(ls, {"LDA", "ADD", "SUB", "STA"}) : w.k = "const"}
        IN  consts = {0} \cup {w.n : w \in rendered}

\* `x = 1`, `output x` has compiled: the literal 1 was folded into the
\* variable table and is not a constant.
C23_Witness ==
    /\ src = <<<<x, OperatorAssignment, Number(1)>>, <<Output, x>>>>
    /\ result.kind = "Ok"
    /\ vars = [s \in {"x"} |-> 1]
    /\ consts = {0}

-----------------------------------------------------------------------------
\* The places of a text where a label is written: line i, word p in front
\* of the mnemonic.
C24_Definitions(ls) ==
    UNION {{<<i, p>> : p \in 1..(MnPos(ls[i]) - 1)} : i \in DOMAIN ls}

\* C24: in the text of every successful compilation no label is written as
\* a label prefix in two places.
C24_LabelsDefinedOnce ==
    result.kind = "Ok" =>
        LET ls == AsmLines(result.text)
            defs == C24_Definitions(ls)
        IN  \A d, e \in defs : ls[d[1]][d[2]] = ls[e[1]][e[2]] => d = e

\* if / else / else / endif has compiled: two `else` arms in one chain.
C24_Witness ==
    /\ src = <<<<If, Number(0), OperatorGreaterThan, Number(1)>>,
               <<Else>>, <<Else>>, <<EndIf>>>>
    /\ result.kind = "Ok"
    /\ {if_(0, "else"), if_(1, "else"), if_(0, "end")}
          \subseteq DefinedIn(AsmLineSet(result.text))

-----------------------------------------------------------------------------
\* C25: parse_tokens is total.  Every step of the loop either consumes one
\* more line of the input and goes on, or returns; what it returns is a
\* text or a diagnostic, never the panic of an index out of bounds; and
\* nothing happens after the return.
C25_Total ==
    [][/\ pc = "lines"
       /\ pc' = "lines" => (Len(src') = Len(src) + 1 /\ result' = NoResult)
       /\ pc' = "returned" => result'.kind \in {"Ok", "Err"}]_state

\* `x = 1`, `while x`: the right operand is missing and the header was
\* rejected with a diagnostic before line[2] was read.
C25_Witness ==
    /\ src = <<<<x, OperatorAssignment, Number(1)>>, <<While, x>>>>
    /\ pc = "returned"
    /\ result.kind = "Err"
    /\ result.err.msg = "Expected condition formed of two arguments and a comparison operator"

=============================================================================
